---------------------------- MODULE Spec2Model ----------------------------
(***************************************************************************)
(* A model of src/app.py: the extraction of billing-code tables from the   *)
(* raw grids of a document (extract_code_tables) and the classification    *)
(* of the codes (_classify_code).                                          *)
(*                                                                         *)
(* Text is modelled as it is in Python: a string is a sequence of          *)
(* one-character strings, so that strip, lower, split, the substring test  *)
(* and the regular expressions are computed and not assumed.  A cell is a  *)
(* string or None; a row is a sequence of cells; a grid ("table") is a     *)
(* sequence of rows.  Python's 0-based indices are 1-based here.           *)
(***************************************************************************)
EXTENDS Integers, Sequences, FiniteSets, TLC

(***************************************************************************)
(* Python values                                                           *)
(***************************************************************************)

\* None, as a cell of a grid or as the result of extract_code_tables.  It is
\* a sequence that is no string (its element is not one character).
None == <<"None">>

\* The exception Python raises when a list is indexed past its end.
IndexError == <<"IndexError">>

\* The empty string.
Empty == <<>>

Digits == {"0", "1", "2", "3", "4", "5", "6", "7", "8", "9"}

UpperLetters ==
    {"A", "B", "C", "D", "E", "F", "G", "H", "I", "J", "K", "L", "M",
     "N", "O", "P", "Q", "R", "S", "T", "U", "V", "W", "X", "Y", "Z"}

LowerLetters ==
    {"a", "b", "c", "d", "e", "f", "g", "h", "i", "j", "k", "l", "m",
     "n", "o", "p", "q", "r", "s", "t", "u", "v", "w", "x", "y", "z"}

\* The characters \s matches and strip() removes.
Whitespace == {" ", "\n", "\t"}

LowerOf ==
    ("A" :> "a") @@ ("B" :> "b") @@ ("C" :> "c") @@ ("D" :> "d") @@
    ("E" :> "e") @@ ("F" :> "f") @@ ("G" :> "g") @@ ("H" :> "h") @@
    ("I" :> "i") @@ ("J" :> "j") @@ ("K" :> "k") @@ ("L" :> "l") @@
    ("M" :> "m") @@ ("N" :> "n") @@ ("O" :> "o") @@ ("P" :> "p") @@
    ("Q" :> "q") @@ ("R" :> "r") @@ ("S" :> "s") @@ ("T" :> "t") @@
    ("U" :> "u") @@ ("V" :> "v") @@ ("W" :> "w") @@ ("X" :> "x") @@
    ("Y" :> "y") @@ ("Z" :> "z")

IsDigit(c) == c \in Digits

IsAlpha(c) == c \in UpperLetters \/ c \in LowerLetters

IsSpace(c) == c \in Whitespace

\* str.lower()
lower(s) == [i \in 1..Len(s) |-> IF s[i] \in UpperLetters THEN LowerOf[s[i]] ELSE s[i]]

\* str.strip(): the string without its leading and trailing whitespace.
strip(s) ==
    LET keep == {i \in 1..Len(s) : ~IsSpace(s[i])}
    IN  IF keep = {} THEN Empty
        ELSE LET lo == CHOOSE i \in keep : \A j \in keep : i <= j
                 hi == CHOOSE i \in keep : \A j \in keep : j <= i
             IN  SubSeq(s, lo, hi)

\* sub in s
contains(sub, s) ==
    \E i \in 0..(Len(s) - Len(sub)) : SubSeq(s, i + 1, i + Len(sub)) = sub

\* s.split("\n")[0]: the text before the first line break.
first_line(s) ==
    LET nl == {i \in 1..Len(s) : s[i] = "\n"}
    IN  IF nl = {} THEN s
        ELSE SubSeq(s, 1, (CHOOSE i \in nl : \A j \in nl : i <= j) - 1)

\* s.split("\n"): the lines of s, empty ones included.
RECURSIVE split_lines(_)
split_lines(s) ==
    LET nl == {i \in 1..Len(s) : s[i] = "\n"}
    IN  IF nl = {} THEN <<s>>
        ELSE LET k == CHOOSE i \in nl : \A j \in nl : i <= j
             IN  <<SubSeq(s, 1, k - 1)>> \o split_lines(SubSeq(s, k + 1, Len(s)))

\* re.sub(r"\s+", " ", s): every run of whitespace becomes one space.  The
\* last character of a run stands for the run, the others are dropped.
collapse_ws(s) ==
    LET ends_run(i) == ~IsSpace(s[i]) \/ i = Len(s) \/ ~IsSpace(s[i + 1])
        kept == SelectSeq([i \in 1..Len(s) |-> i], ends_run)
    IN  [j \in 1..Len(kept) |-> IF IsSpace(s[kept[j]]) THEN " " ELSE s[kept[j]]]

\* (cell or ""): None and the empty string both read as the empty string.
text(cell) == IF cell = None THEN Empty ELSE cell

\* A pattern anchored with ^...$ and tried with match(): $ matches at the end
\* of the string and also just before a line break that ends the string.
before_dollar(s) ==
    IF Len(s) > 0 /\ s[Len(s)] = "\n" THEN {s, SubSeq(s, 1, Len(s) - 1)} ELSE {s}

AllDigits(s, lo, hi) == \A i \in lo..hi : IsDigit(s[i])

AllAlpha(s, lo, hi) == \A i \in lo..hi : IsAlpha(s[i])

\* ^[A-Za-z]\d{4}$
_HCPCS_RE(s) ==
    \E t \in before_dollar(s) :
        Len(t) = 5 /\ IsAlpha(t[1]) /\ AllDigits(t, 2, 5)

\* ^\d{5}$
_CPT_RE(s) ==
    \E t \in before_dollar(s) : Len(t) = 5 /\ AllDigits(t, 1, 5)

\* ^\d{3,4}$
_REVENUE_RE(s) ==
    \E t \in before_dollar(s) : Len(t) \in 3..4 /\ AllDigits(t, 1, Len(t))

\* ^[A-Za-z]{0,2}\d{3,5}$
_CODE_LIKE_RE(s) ==
    \E t \in before_dollar(s) :
        \E k \in 0..2 :
            /\ Len(t) - k \in 3..5
            /\ AllAlpha(t, 1, k)
            /\ AllDigits(t, k + 1, Len(t))

\* ^\d{1,2}/\d{1,2}/\d{2,4}$
_DATE_RE(s) ==
    \E t \in before_dollar(s) :
        \E a \in 1..2, b \in 1..2 :
            /\ Len(t) - (a + b + 2) \in 2..4
            /\ AllDigits(t, 1, a)
            /\ t[a + 1] = "/"
            /\ AllDigits(t, a + 2, a + b + 1)
            /\ t[a + b + 2] = "/"
            /\ AllDigits(t, a + b + 3, Len(t))

_MAX_CODE_HEADER_LEN == 50


(***************************************************************************)
(* String constants of the program                                         *)
(***************************************************************************)

kw_hcpcs == <<"h", "c", "p", "c", "s">>
kw_cpt == <<"c", "p", "t">>
kw_revenue == <<"r", "e", "v", "e", "n", "u", "e">>
kw_code == <<"c", "o", "d", "e">>
kw_icd_10 == <<"i", "c", "d", "-", "1", "0">>
kw_icd10 == <<"i", "c", "d", "1", "0">>
kw_date == <<"d", "a", "t", "e">>
kw_section == <<"s", "e", "c", "t", "i", "o", "n">>
kw_change == <<"c", "h", "a", "n", "g", "e">>
kw_revised == <<"r", "e", "v", "i", "s", "e", "d">>

HCPCS == <<"H", "C", "P", "C", "S">>
CPT == <<"C", "P", "T">>
Revenue == <<"R", "e", "v", "e", "n", "u", "e">>
Description == <<"D", "e", "s", "c", "r", "i", "p", "t", "i", "o", "n">>
Note == <<"N", "o", "t", "e">>
Code == <<"C", "o", "d", "e">>
CodeType == <<"C", "o", "d", "e", " ", "T", "y", "p", "e">>

(***************************************************************************)
(* _classify_code                                                          *)
(***************************************************************************)

\* A faulty variant: the hint is tested for "cpt" before "hcpcs".
classify_cpt_first(code, header_hint) ==
    LET h == lower(header_hint)
    IN  IF contains(kw_cpt, h) THEN CPT
        ELSE IF contains(kw_hcpcs, h) THEN HCPCS
        ELSE IF contains(kw_revenue, h) THEN Revenue
        ELSE IF _HCPCS_RE(code) THEN HCPCS
        ELSE IF _CPT_RE(code) THEN CPT
        ELSE IF _REVENUE_RE(code) THEN Revenue
        ELSE CPT

_classify_code(code, header_hint) ==
    LET h == lower(header_hint)
    IN  IF contains(kw_hcpcs, h) THEN HCPCS
        ELSE IF contains(kw_cpt, h) THEN CPT
        ELSE IF contains(kw_revenue, h) THEN Revenue
        ELSE IF _HCPCS_RE(code) THEN HCPCS
        ELSE IF _CPT_RE(code) THEN CPT
        ELSE IF _REVENUE_RE(code) THEN Revenue
        ELSE CPT

(***************************************************************************)
(* _is_policy_revision_table                                               *)
(***************************************************************************)

\* A faulty variant: only the explicit header pattern is tested, not the date that
\* opens a continuation page.
revision_header_only(table) ==
    IF table = <<>> \/ table[1] = <<>> THEN FALSE
    ELSE LET first_row == [i \in 1..Len(table[1]) |-> lower(strip(text(table[1][i])))]
         IN  /\ \E i \in 1..Len(first_row) : contains(kw_date, first_row[i])
             /\ \E i \in 1..Len(first_row) :
                    \/ contains(kw_section, first_row[i])
                    \/ contains(kw_change, first_row[i])
                    \/ contains(kw_revised, first_row[i])

_is_policy_revision_table(table) ==
    IF table = <<>> \/ table[1] = <<>> THEN FALSE
    ELSE LET first_row == [i \in 1..Len(table[1]) |-> lower(strip(text(table[1][i])))]
             first_cell == strip(text(table[1][1]))
         IN  \/ /\ \E i \in 1..Len(first_row) : contains(kw_date, first_row[i])
                /\ \E i \in 1..Len(first_row) :
                       \/ contains(kw_section, first_row[i])
                       \/ contains(kw_change, first_row[i])
                       \/ contains(kw_revised, first_row[i])
             \/ _DATE_RE(first_cell)


(***************************************************************************)
(* extract_code_tables, first pass: one grid                               *)
(***************************************************************************)

\* Python's row[i], with i counted from 1: past the row's end it raises.
cell_at(row, i) == IF i \in 1..Len(row) THEN row[i] ELSE IndexError

\* A faulty variant: the guard is left out, every index is taken to be in the row.
in_row_unguarded(i, row) == TRUE

\* The guard "i < len(row)" of the single-code-column walk.
in_row(i, row) == i <= Len(row)

Min(S) == CHOOSE i \in S : \A j \in S : i <= j

\* The header row: each cell stripped, its whitespace runs collapsed.
raw_headers(table) ==
    [i \in 1..Len(table[1]) |-> collapse_ws(strip(text(table[1][i])))]

\* Whether a header names the code column: it contains "code", is not an
\* ICD-10 header and is not longer than _MAX_CODE_HEADER_LEN.
is_code_header(raw_header) ==
    LET h == lower(raw_header)
    IN  /\ contains(kw_code, h)
        /\ ~(contains(kw_icd_10, h) \/ contains(kw_icd10, h))
        /\ ~(Len(raw_header) > _MAX_CODE_HEADER_LEN)

\* The first header that names the code column; 0 stands for None.
header_code_col(headers) ==
    LET hits == {i \in 1..Len(headers) : is_code_header(headers[i])}
    IN  IF hits = {} THEN 0 ELSE Min(hits)

\* The fallback for a grid without a code header: row 0 starts with a code,
\* or its first cell is empty and a later row starts with a code.
is_headerless_continuation(table) ==
    LET first_cell_val == strip(text(table[1][1]))
        first_ln == strip(first_line(first_cell_val))
    IN  IF _CODE_LIKE_RE(first_ln) THEN TRUE
        ELSE IF first_cell_val = Empty
             THEN \E k \in 2..Len(table) :
                      /\ table[k] /= <<>>
                      /\ _CODE_LIKE_RE(strip(first_line(strip(text(table[k][1])))))
             ELSE FALSE

\* The code header of a continuation grid: the label of the first code that
\* opens a row, or the empty string when no row opens with a code.
continuation_code_header(table) ==
    LET pv(k) == strip(first_line(text(table[k][1])))
        hits == {k \in 1..Len(table) : table[k] /= <<>> /\ _CODE_LIKE_RE(pv(k))}
    IN  IF hits = {} THEN Empty ELSE _classify_code(pv(Min(hits)), Empty)

\* Whether every non-code header is empty (always so for a continuation).
all_other_empty_of(headers, code_col, is_continuation) ==
    \/ is_continuation
    \/ \A i \in 1..Len(headers) : i /= code_col => headers[i] = Empty

\* The peek: the first non-empty cell outside the code column, rows in
\* order and cells in order; the layout is multi-column when its first line
\* looks like a code.
peek_multi_col_codes(rows, code_col) ==
    LET filled(k) == {i \in 1..Len(rows[k]) :
                          i /= code_col /\ strip(text(rows[k][i])) /= Empty}
        hits == {k \in 1..Len(rows) : filled(k) /= {}}
    IN  IF hits = {} THEN FALSE
        ELSE LET k == Min(hits)
                 cell == strip(text(rows[k][Min(filled(k))]))
             IN  _CODE_LIKE_RE(strip(first_line(cell)))

(***************************************************************************)
(* Multi-column code table                                                 *)
(***************************************************************************)

\* A faulty variant: no row is ever taken for a repeat.
is_repeat_never(key, seen) == FALSE

\* The test "not in seen" that drops a repeated row of one table.
is_repeat(key, seen) == key \in seen

RECURSIVE multi_lines(_, _)
multi_lines(acc, lines) ==
    IF lines = <<>> THEN acc
    ELSE LET code_line == strip(Head(lines))
             next == IF \/ code_line = Empty
                        \/ ~_CODE_LIKE_RE(code_line)
                        \/ is_repeat(code_line, acc.seen)
                     THEN acc
                     ELSE [acc EXCEPT
                              !.seen = @ \cup {code_line},
                              !.data_rows = Append(@, [code |-> code_line,
                                                       other_vals |-> <<>>])]
         IN  multi_lines(next, Tail(lines))

RECURSIVE multi_cells(_, _)
multi_cells(acc, cells) ==
    IF cells = <<>> THEN acc
    ELSE multi_cells(IF Head(cells) = Empty THEN acc
                     ELSE multi_lines(acc, split_lines(Head(cells))),
                     Tail(cells))

multi_row(acc, row) ==
    IF row = <<>> THEN acc
    ELSE LET cells == [i \in 1..Len(row) |-> strip(text(row[i]))]
             non_empty == SelectSeq(cells, LAMBDA c : c /= Empty)
         IN  IF non_empty = <<>> THEN acc
             ELSE LET first_token == strip(first_line(non_empty[1]))
                      looks_like_code == _CODE_LIKE_RE(first_token)
                  IN  IF Len(non_empty) = 1 /\ ~looks_like_code
                      THEN [acc EXCEPT !.table_note = collapse_ws(non_empty[1])]
                      ELSE multi_cells(acc, cells)

RECURSIVE multi_rows(_, _)
multi_rows(acc, rows) ==
    IF rows = <<>> THEN acc
    ELSE multi_rows(multi_row(acc, Head(rows)), Tail(rows))

\* A faulty variant: the note is not attached to the rows already extracted.
apply_note_skipped(data_rows, table_note) == data_rows

\* The note, when there is one, becomes the one other value of every row.
apply_note(data_rows, table_note) ==
    IF table_note /= Empty
    THEN [k \in 1..Len(data_rows) |->
              [code |-> data_rows[k].code, other_vals |-> <<table_note>>]]
    ELSE data_rows

multi_col_table(rows) ==
    LET acc == multi_rows([seen |-> {}, data_rows |-> <<>>,
                           table_note |-> Empty, raised |-> FALSE], rows)
    IN  [other_headers |-> IF acc.table_note /= Empty THEN <<Note>> ELSE <<>>,
         data_rows |-> apply_note(acc.data_rows, acc.table_note),
         raised |-> FALSE]

(***************************************************************************)
(* Single code-column table                                                *)
(***************************************************************************)

\* A faulty variant: only the columns with a header are kept, also when no non-code
\* column has one.
other_indices_named_only(headers, code_col, all_other_empty, is_continuation) ==
    SelectSeq([i \in 1..Len(headers) |-> i],
              LAMBDA i : i /= code_col /\ headers[i] /= Empty)

other_indices_of(headers, code_col, all_other_empty, is_continuation) ==
    SelectSeq([i \in 1..Len(headers) |-> i],
              LAMBDA i : /\ i /= code_col
                         /\ (headers[i] /= Empty \/ all_other_empty \/ is_continuation))

other_headers_of(headers, other_indices, is_continuation) ==
    [j \in 1..Len(other_indices) |->
        IF is_continuation THEN Description
        ELSE IF headers[other_indices[j]] /= Empty
             THEN headers[other_indices[j]]
             ELSE Description]

row_key(code_line, other_vals) == <<code_line>> \o other_vals

RECURSIVE single_lines(_, _, _)
single_lines(acc, lines, other_vals) ==
    IF lines = <<>> THEN acc
    ELSE LET code_line == strip(Head(lines))
             next == IF \/ code_line = Empty
                        \/ ~_CODE_LIKE_RE(code_line)
                        \/ is_repeat(row_key(code_line, other_vals), acc.seen)
                     THEN acc
                     ELSE [acc EXCEPT
                              !.seen = @ \cup {row_key(code_line, other_vals)},
                              !.data_rows = Append(@, [code |-> code_line,
                                                       other_vals |-> other_vals])]
         IN  single_lines(next, Tail(lines), other_vals)

single_row(acc, row, code_col, other_indices) ==
    IF acc.raised \/ row = <<>> THEN acc
    ELSE LET code_raw == IF in_row(code_col, row) THEN cell_at(row, code_col)
                         ELSE Empty
         IN  IF code_raw = IndexError THEN [acc EXCEPT !.raised = TRUE]
             ELSE IF strip(text(code_raw)) = Empty THEN acc
             ELSE LET raws == [j \in 1..Len(other_indices) |->
                                  IF in_row(other_indices[j], row)
                                  THEN cell_at(row, other_indices[j])
                                  ELSE Empty]
                  IN  IF \E j \in 1..Len(raws) : raws[j] = IndexError
                      THEN [acc EXCEPT !.raised = TRUE]
                      ELSE single_lines(acc, split_lines(strip(text(code_raw))),
                                        [j \in 1..Len(raws) |-> strip(text(raws[j]))])

RECURSIVE single_rows(_, _, _, _)
single_rows(acc, rows, code_col, other_indices) ==
    IF rows = <<>> THEN acc
    ELSE single_rows(single_row(acc, Head(rows), code_col, other_indices),
                     Tail(rows), code_col, other_indices)

single_col_table(rows, headers, code_col, all_other_empty, is_continuation) ==
    LET other_indices == other_indices_of(headers, code_col, all_other_empty,
                                          is_continuation)
        acc == single_rows([seen |-> {}, data_rows |-> <<>>,
                            table_note |-> Empty, raised |-> FALSE],
                           rows, code_col, other_indices)
    IN  [other_headers |-> other_headers_of(headers, other_indices, is_continuation),
         data_rows |-> acc.data_rows,
         raised |-> acc.raised]

(***************************************************************************)
(* The body of the loop over the grids of a document                       *)
(***************************************************************************)

Skipped == [kind |-> "skip"]

Raised == [kind |-> "raise"]

\* What one grid adds to raw_tables: nothing (the grid is skipped), a
\* candidate table, or an exception that ends the whole extraction.
process_table(table) ==
    IF table = <<>> \/ table[1] = <<>> THEN Skipped
    ELSE IF _is_policy_revision_table(table) THEN Skipped
    ELSE LET headers == raw_headers(table)
             header_col == header_code_col(headers)
             is_continuation == header_col = 0 /\ is_headerless_continuation(table)
             code_col == IF header_col /= 0 THEN header_col
                         ELSE IF is_continuation THEN 1 ELSE 0
         IN  IF code_col = 0 THEN Skipped
             ELSE LET code_header == IF is_continuation
                                     THEN continuation_code_header(table)
                                     ELSE headers[code_col]
                      rows == IF is_continuation THEN table ELSE Tail(table)
                      all_other_empty ==
                          all_other_empty_of(headers, code_col, is_continuation)
                      multi_col_codes ==
                          all_other_empty /\ peek_multi_col_codes(rows, code_col)
                      t == IF multi_col_codes THEN multi_col_table(rows)
                           ELSE single_col_table(rows, headers, code_col,
                                                 all_other_empty, is_continuation)
                  IN  IF t.raised THEN Raised
                      ELSE IF t.data_rows = <<>> THEN Skipped
                      ELSE [kind |-> "table",
                            code_header |-> code_header,
                            other_headers |-> t.other_headers,
                            data_rows |-> t.data_rows]


(***************************************************************************)
(* extract_code_tables, second pass: the unified headers and rows          *)
(***************************************************************************)

\* list.index(h): the first position of h.
index_of(list, h) == Min({i \in 1..Len(list) : list[i] = h})

\* A faulty variant: a name is appended every time it is met.
append_unseen_always(all_other, other_headers) ==
    all_other \o other_headers

\* The names of other_headers not yet in all_other, appended in order.
RECURSIVE append_unseen(_, _)
append_unseen(all_other, other_headers) ==
    IF other_headers = <<>> THEN all_other
    ELSE append_unseen(IF \E i \in 1..Len(all_other) : all_other[i] = Head(other_headers)
                       THEN all_other
                       ELSE Append(all_other, Head(other_headers)),
                       Tail(other_headers))

\* The union of the non-code column names of all tables, first seen first.
RECURSIVE all_other_of(_)
all_other_of(raw_tables) ==
    IF raw_tables = <<>> THEN <<>>
    ELSE append_unseen(all_other_of(SubSeq(raw_tables, 1, Len(raw_tables) - 1)),
                       raw_tables[Len(raw_tables)].other_headers)

\* The assignments unified[col_map[h]] = other_vals[j], for j in order.
RECURSIVE assign_columns(_, _, _, _, _)
assign_columns(unified, all_other, other_headers, other_vals, j) ==
    IF j > Len(other_headers) THEN unified
    ELSE assign_columns(
             [unified EXCEPT ![index_of(all_other, other_headers[j])] = other_vals[j]],
             all_other, other_headers, other_vals, j + 1)

\* The unified rows of one table.
unified_rows_of_table(t, all_other) ==
    [k \in 1..Len(t.data_rows) |->
        <<t.data_rows[k].code, _classify_code(t.data_rows[k].code, t.code_header)>>
        \o assign_columns([i \in 1..Len(all_other) |-> Empty], all_other,
                          t.other_headers, t.data_rows[k].other_vals, 1)]

RECURSIVE unified_rows(_, _)
unified_rows(raw_tables, all_other) ==
    IF raw_tables = <<>> THEN <<>>
    ELSE unified_rows_of_table(Head(raw_tables), all_other)
         \o unified_rows(Tail(raw_tables), all_other)

\* What extract_code_tables returns once every grid has been walked.
unify(raw_tables) ==
    IF raw_tables = <<>> THEN [status |-> "none"]
    ELSE LET all_other == all_other_of(raw_tables)
         IN  [status |-> "ok",
              headers |-> <<Code, CodeType>> \o all_other,
              rows |-> unified_rows(raw_tables, all_other)]


(***************************************************************************)
(* The cells the grids of the model are made of                           *)
(***************************************************************************)

s_CPT_Code == <<"C", "P", "T", " ", "C", "o", "d", "e">>

s_CPT_Codes == <<"C", "P", "T", "\n", "C", "o", "d", "e", "s">>

s_HCPCS_Code == <<"H", "C", "P", "C", "S", " ", "C", "o", "d", "e">>

s_Revenue_Code == <<"R", "e", "v", "e", "n", "u", "e", " ", "C", "o", "d", "e">>

s_CPT_HCPCS_Code == <<"C", "P", "T", "/", "H", "C", "P", "C", "S", " ", "C", "o", "d", "e">>

s_ICD_10_Code == <<"I", "C", "D", "-", "1", "0", " ", "C", "o", "d", "e">>

s_Long_Header == <<"T", "h", "i", "s", " ", "t", "a", "b", "l", "e", " ", "l", "i", "s", "t", "s", " ", "e", "a", "c", "h", " ", "p", "r", "o", "c", "e", "d", "u", "r", "e", " ", "c", "o", "d", "e", " ", "b", "i", "l", "l", "e", "d", " ", "b", "y", " ", "t", "h", "e", " ", "p", "r", "o", "v", "i", "d", "e", "r">>

s_Desc == <<"D", "e", "s", "c">>

s_Category == <<"C", "a", "t", "e", "g", "o", "r", "y">>

s_Name == <<"N", "a", "m", "e">>

s_Value == <<"V", "a", "l", "u", "e">>

s_Date == <<"D", "a", "t", "e">>

s_Effective_Date == <<"E", "f", "f", "e", "c", "t", "i", "v", "e", " ", "D", "a", "t", "e">>

s_Section_Revised == <<"S", "e", "c", "t", "i", "o", "n", " ", "R", "e", "v", "i", "s", "e", "d">>

s_Change == <<"C", "h", "a", "n", "g", "e">>

s_d_1_1_2020 == <<"1", "/", "1", "/", "2", "0", "2", "0">>

s_d_10_01_14 == <<" ", "1", "0", "/", "0", "1", "/", "1", "4">>

s_Updated_list == <<"U", "p", "d", "a", "t", "e", "d", " ", "l", "i", "s", "t">>

s_c99213 == <<"9", "9", "2", "1", "3">>

s_c99214 == <<"9", "9", "2", "1", "4">>

s_c99215 == <<"9", "9", "2", "1", "5">>

s_A1234 == <<"A", "1", "2", "3", "4">>

s_A5678 == <<"A", "5", "6", "7", "8">>

s_J1234 == <<"j", "1", "2", "3", "4">>

s_c0651 == <<"0", "6", "5", "1">>

s_c123 == <<"1", "2", "3">>

s_AB123 == <<"A", "B", "1", "2", "3">>

s_ABC12 == <<"A", "B", "C", "1", "2">>

s_c123456 == <<"1", "2", "3", "4", "5", "6">>

s_c0651_Routine_Home_Care == <<"0", "6", "5", "1", "\n", "R", "o", "u", "t", "i", "n", "e", " ", "H", "o", "m", "e", "\n", "C", "a", "r", "e">>

s_c99213_99214 == <<"9", "9", "2", "1", "3", "\n", " ", "9", "9", "2", "1", "4", " ", "\n", "\n", "9", "9", "2", "1", "3">>

s_padded_99215 == <<" ", "9", "9", "2", "1", "5", "\n">>

s_Office_visit == <<"O", "f", "f", "i", "c", "e", " ", "v", "i", "s", "i", "t">>

s_Hospice == <<"H", "o", "s", "p", "i", "c", "e">>

s_widget == <<"w", "i", "d", "g", "e", "t">>

s_gadget == <<"g", "a", "d", "g", "e", "t">>

s_padded_a == <<" ", "a", " ">>

s_b == <<"b">>

s_note_text == <<"S", "e", "e", " ", " ", "p", "o", "l", "i", "c", "y", "\n", "n", "o", "t", "e">>

s_n_a == <<"n", "/", "a">>

s_Blank == <<" ">>


(***************************************************************************)
(* The grids of the model                                                  *)
(***************************************************************************)

\* Bounds: the grids one document holds, and the data rows of one grid of
\* GridsOfRows.
MaxTables == 2

MaxDataRows == 2

\* A header-and-duplicate grid (scenario A of the specification).
g_duplicate == <<<<s_CPT_Code, Description>>,
                 <<s_c99213, s_Office_visit>>, <<s_c99213, s_Office_visit>>>>

\* Revision-history grids: the header shape (scenario B), a continuation page
\* that opens with a date, and both shapes with a code header and codes.
g_revision == <<<<s_Date, s_Section_Revised, s_Change>>,
                <<s_d_1_1_2020, s_Desc, s_Updated_list>>>>

g_revision_page == <<<<s_d_10_01_14, s_Updated_list>>, <<s_c99213, s_Office_visit>>>>

g_revision_codes == <<<<s_Effective_Date, s_CPT_Code, s_Change>>,
                      <<s_d_1_1_2020, s_c99213, s_Updated_list>>>>

g_revision_dated_codes == <<<<s_d_1_1_2020, s_CPT_Code>>, <<s_Desc, s_c99214>>>>

\* A code cell with stacked text (scenario C).
g_stacked == <<<<s_Revenue_Code, s_Category>>, <<s_c0651_Routine_Home_Care, s_Hospice>>>>

\* Headerless continuation grids (scenario D), one of them of mixed shapes,
\* one opening with an empty cell, one with three columns.
g_continuation == <<<<s_A1234, s_widget>>, <<s_A5678, s_gadget>>>>

g_continuation_mixed == <<<<s_c99213, s_widget>>, <<s_A1234, s_gadget>>>>

g_continuation_wide == <<<<s_c99214, s_widget, s_gadget>>>>

\* Annotation rows (scenario E): the note in the code column and the codes
\* beside it, the note and the codes in the code column, no header at all,
\* and the note after the codes.
g_note_beside == <<<<Code, Empty>>, <<s_note_text, Empty>>,
                   <<Empty, s_c99213>>, <<Empty, s_c99214>>>>

\* Codes fanned out over several unlabeled columns.
g_multi == <<<<s_CPT_Codes, Empty, Empty>>, <<s_c99213, s_c99214, s_c99215>>,
             <<s_c99213, s_c99213_99214>>>>

\* Unlabeled and repeated headers.
g_unlabeled == <<<<Code, Empty, Empty>>, <<s_c99213, s_padded_a, s_b>>>>

g_half_labeled == <<<<Code, s_Desc, Empty>>, <<s_c99213, s_padded_a, s_b>>>>

g_repeated_header == <<<<Code, s_Desc, s_Desc>>, <<s_c99213, s_padded_a, s_b>>>>

\* Malformed grids: no rows, an empty first row, short and empty rows, None
\* cells, no code column, no code in the code column.
g_no_rows == <<>>

g_empty_first_row == <<<<>>, <<s_c99213>>>>

g_short_rows == <<<<s_Category, s_CPT_Code, Description>>, <<s_Hospice>>,
                  <<None, s_c99213>>, <<>>, <<None, s_padded_99215, None>>>>

g_no_code_column == <<<<s_Name, s_Value>>, <<s_widget, s_gadget>>>>

g_no_code == <<<<s_CPT_Code, Description>>, <<s_n_a, s_widget>>, <<s_c123456, s_b>>>>

\* Headers and the classifier: a foreign coding system beside the code column,
\* prose that mentions "code", a hint naming two systems, a hint against the
\* shape, no hint.
g_icd == <<<<s_ICD_10_Code, s_HCPCS_Code>>, <<s_A1234, s_J1234>>, <<s_c123, s_c99213>>>>

g_long_header == <<<<s_Long_Header, Code>>, <<s_c99213, s_AB123>>>>

g_two_systems == <<<<s_CPT_HCPCS_Code, Description>>, <<s_c99213, s_widget>>,
                   <<s_J1234, s_gadget>>>>

g_revenue_hint == <<<<s_Revenue_Code, Description>>, <<s_c99213, s_Office_visit>>,
                    <<s_A1234, s_widget>>>>

\* Two columns beside the code, one under a name other grids use too.
g_three_columns == <<<<s_HCPCS_Code, Description, s_Value>>, <<s_A1234, s_widget, s_b>>>>

g_no_hint == <<<<Code, s_Category>>, <<s_A1234, s_widget>>, <<s_c99213, s_Office_visit>>,
               <<s_c0651, s_Hospice>>, <<s_c123, s_b>>, <<s_AB123, s_b>>, <<s_ABC12, s_b>>>>

\* The grids a document of the model is made of.
Grids ==
    {g_duplicate, g_revision, g_revision_page, g_revision_codes,
     g_revision_dated_codes, g_stacked, g_continuation, g_continuation_mixed,
     g_continuation_wide, g_note_beside, g_multi, g_unlabeled,
     g_half_labeled, g_repeated_header, g_no_rows, g_empty_first_row,
     g_short_rows, g_no_code_column, g_no_code, g_icd, g_long_header,
     g_two_systems, g_revenue_hint, g_three_columns, g_no_hint}

\* First rows: headers, rows of data that open a continuation page, rows of
\* a revision history.
HeaderRows ==
    {<<s_CPT_Code, Description>>, <<Description, s_CPT_Code>>,
     <<Code>>, <<Code, Empty>>, <<Code, Empty, Empty>>,
     <<Code, s_Desc, Empty>>,
     <<s_HCPCS_Code, None, s_Blank>>,
     <<s_Revenue_Code, s_Category, Description>>,
     <<s_ICD_10_Code, s_CPT_Codes>>,
     <<s_A1234, s_widget>>, <<s_c99213>>, <<Empty, s_widget>>,
     <<s_c0651, s_gadget, s_widget>>,
     <<>>, <<s_d_1_1_2020, s_CPT_Code>>}

\* Rows of data.
DataRows ==
    {<<>>, <<None, None>>,
     <<s_c99213>>, <<s_c99213, s_Office_visit>>, <<s_c99213, s_padded_a, s_b>>,
     <<s_A1234, s_widget>>,
     <<s_c0651_Routine_Home_Care, s_Hospice>>, <<s_c99213_99214, s_widget>>,
     <<s_note_text, Empty>>, <<Empty, s_note_text>>,
     <<Empty, s_c99213>>, <<None, s_padded_99215, None>>,
     <<s_c99213, s_c99214, s_J1234>>,
     <<s_AB123, s_gadget, s_widget, s_b>>}

\* The sequences of at most n elements of S.
RECURSIVE SeqsUpTo(_, _)
SeqsUpTo(S, n) ==
    IF n = 0 THEN {<<>>}
    ELSE LET shorter == SeqsUpTo(S, n - 1)
         IN  shorter \cup {Append(q, x) : q \in shorter, x \in S}

\* Every grid of a first row and at most MaxDataRows rows of data.
GridsOfRows ==
    {<<h>> \o rows : h \in HeaderRows, rows \in SeqsUpTo(DataRows, MaxDataRows)}

(***************************************************************************)
(* The state machine: extract_code_tables on one document                  *)
(***************************************************************************)

VARIABLES
    pc,          \* where extract_code_tables is: "download", "tables", "done"
    tables_in,   \* the grids page.extract_tables() has handed over so far
    raw_tables,  \* the candidate tables collected by the first pass
    extraction   \* what the function returns

vars == <<pc, tables_in, raw_tables, extraction>>

Pending == [status |-> "pending"]

Init ==
    /\ pc = "download"
    /\ tables_in = <<>>
    /\ raw_tables = <<>>
    /\ extraction = Pending

\* requests.get fails: the function returns an error.
DownloadFails ==
    /\ pc = "download"
    /\ pc' = "done"
    /\ extraction' = [status |-> "error", error |-> "download", cause |-> "requests"]
    /\ UNCHANGED <<tables_in, raw_tables>>

\* The bytes are there and the loop over the pages starts.
DownloadOk ==
    /\ pc = "download"
    /\ pc' = "tables"
    /\ UNCHANGED <<tables_in, raw_tables, extraction>>

\* pdfplumber cannot read the document: the except clause returns an error.
PdfFails ==
    /\ pc = "tables"
    /\ pc' = "done"
    /\ extraction' = [status |-> "error", error |-> "parse", cause |-> "pdfplumber"]
    /\ UNCHANGED <<tables_in, raw_tables>>

\* One turn of the loop over the grids: the grid is skipped, or its candidate
\* table is appended, or an exception ends the function with an error.
ProcessTable(source, limit) ==
    /\ pc = "tables"
    /\ Len(tables_in) < limit
    /\ \E table \in source :
           LET r == process_table(table)
           IN  /\ tables_in' = Append(tables_in, table)
               /\ IF r.kind = "raise"
                  THEN /\ pc' = "done"
                       /\ extraction' = [status |-> "error", error |-> "parse",
                                         cause |-> "IndexError"]
                       /\ UNCHANGED raw_tables
                  ELSE /\ raw_tables' =
                              IF r.kind = "table"
                              THEN Append(raw_tables,
                                          [code_header |-> r.code_header,
                                           other_headers |-> r.other_headers,
                                           data_rows |-> r.data_rows])
                              ELSE raw_tables
                       /\ UNCHANGED <<pc, extraction>>

\* The pages are exhausted: None without a candidate table, else the
\* unified headers and rows.
Unify ==
    /\ pc = "tables"
    /\ pc' = "done"
    /\ extraction' = unify(raw_tables)
    /\ UNCHANGED <<tables_in, raw_tables>>

\* Documents of at most MaxTables grids of Grids.
Next ==
    \/ DownloadFails
    \/ DownloadOk
    \/ PdfFails
    \/ ProcessTable(Grids, MaxTables)
    \/ Unify

Spec == Init /\ [][Next]_vars

\* Documents of one grid of GridsOfRows.
NextGrid ==
    \/ DownloadFails
    \/ DownloadOk
    \/ PdfFails
    \/ ProcessTable(GridsOfRows, 1)
    \/ Unify

SpecGrid == Init /\ [][NextGrid]_vars


(***************************************************************************)
(* Definitions the properties are stated with                              *)
(***************************************************************************)

\* The candidate tables of a sequence of grids, as the loop collects them.
RECURSIVE Candidates(_)
Candidates(tables) ==
    IF tables = <<>> THEN <<>>
    ELSE LET r == process_table(tables[Len(tables)])
             before == Candidates(SubSeq(tables, 1, Len(tables) - 1))
         IN  IF r.kind = "table"
             THEN Append(before, [code_header |-> r.code_header,
                                  other_headers |-> r.other_headers,
                                  data_rows |-> r.data_rows])
             ELSE before

\* The function has returned headers and rows.
Succeeded == pc = "done" /\ extraction.status = "ok"

\* A short date, D{1,2}/D{1,2}/D{2,4}: three runs of digits between two slashes.
ShortDate(s) ==
    \E i, j \in 1..Len(s) :
        /\ i < j
        /\ s[i] = "/" /\ s[j] = "/"
        /\ \A k \in 1..Len(s) : k \notin {i, j} => s[k] \in Digits
        /\ i - 1 \in {1, 2}
        /\ j - i - 1 \in {1, 2}
        /\ Len(s) - j \in {2, 3, 4}

\* The revision-history shape of a grid.
RevisionShape(table) ==
    /\ table /= <<>>
    /\ table[1] /= <<>>
    /\ LET cell(i) == lower(text(table[1][i]))
           cols == 1..Len(table[1])
       IN  \/ /\ \E i \in cols : contains(kw_date, cell(i))
              /\ \E i \in cols : \E w \in {kw_section, kw_change, kw_revised} :
                     contains(w, cell(i))
           \/ ShortDate(strip(text(table[1][1])))

(***************************************************************************)
(* C1                                                                      *)
(***************************************************************************)

\* C1: a grid of the revision-history shape contributes nothing, whatever the
\* other grids of the document are: the candidate tables collected, and the
\* result returned, are those of the document without its revision-shaped grids.
C1_RevisionGridsContributeNothing ==
    LET others == SelectSeq(tables_in, LAMBDA t : ~RevisionShape(t))
    IN  /\ raw_tables = Candidates(others)
        /\ extraction.status \in {"ok", "none"} => extraction = unify(Candidates(others))

\* C1 witness: a document that succeeded and holds a revision-shaped grid
\* with a code header and a code in that column.
C1_Witness ==
    /\ Succeeded
    /\ \E k \in 1..Len(tables_in) :
           LET t == tables_in[k]
           IN  /\ RevisionShape(t)
               /\ \E i \in 1..Len(t[1]) :
                      /\ is_code_header(raw_headers(t)[i])
                      /\ \E r \in 2..Len(t) :
                             i <= Len(t[r]) /\ _CODE_LIKE_RE(strip(text(t[r][i])))


(***************************************************************************)
(* C2                                                                      *)
(***************************************************************************)

\* The code shape: at most two letters, then three to five digits, nothing else.
CodeShape(s) ==
    LET letters == {i \in 1..Len(s) : IsAlpha(s[i])}
        digits == {i \in 1..Len(s) : s[i] \in Digits}
    IN  /\ letters \cup digits = 1..Len(s)
        /\ Cardinality(letters) <= 2
        /\ Cardinality(digits) \in 3..5
        /\ \A i \in letters, j \in digits : i < j

\* C2: every row of every candidate table has a non-empty code of the code
\* shape and as many other values as its table has other column names.
C2_RowsWellFormed ==
    \A t \in 1..Len(raw_tables) :
        \A k \in 1..Len(raw_tables[t].data_rows) :
            LET row == raw_tables[t].data_rows[k]
            IN  /\ row.code /= Empty
                /\ CodeShape(row.code)
                /\ Len(row.other_vals) = Len(raw_tables[t].other_headers)

\* The grid was walked as a multi-column code table, it being no revision grid.
WalkedMultiColumn(table) ==
    /\ table /= <<>> /\ table[1] /= <<>>
    /\ LET headers == raw_headers(table)
           col == header_code_col(headers)
           cont == col = 0 /\ is_headerless_continuation(table)
       IN  /\ col /= 0 \/ cont
           /\ all_other_empty_of(headers, IF cont THEN 1 ELSE col, cont)
           /\ peek_multi_col_codes(IF cont THEN table ELSE Tail(table),
                                   IF cont THEN 1 ELSE col)

\* C2 witness: the candidate table of a headerless continuation grid walked
\* as a multi-column code table, with a note attached to its several codes.
C2_Witness ==
    /\ Len(tables_in) = 1 /\ Len(raw_tables) = 1
    /\ LET t == raw_tables[1]
       IN  /\ WalkedMultiColumn(tables_in[1])
           /\ t.other_headers = <<Note>>
           /\ Len(t.data_rows) >= 2
           /\ header_code_col(raw_headers(tables_in[1])) = 0


(***************************************************************************)
(* C3                                                                      *)
(***************************************************************************)

NoDuplicates(names) ==
    \A i, j \in 1..Len(names) : i /= j => names[i] /= names[j]

\* C3: no two non-code columns of one candidate table carry the same name.
C3_ColumnNamesUnique ==
    \A t \in 1..Len(raw_tables) : NoDuplicates(raw_tables[t].other_headers)

(***************************************************************************)
(* C4                                                                      *)
(***************************************************************************)

\* The unified rows in the order of the output, each with the table and the
\* row it comes from.
RECURSIVE Origins(_, _)
Origins(tables, t) ==
    IF t > Len(tables) THEN <<>>
    ELSE [k \in 1..Len(tables[t].data_rows) |-> [table |-> t, row |-> k]]
         \o Origins(tables, t + 1)

\* The global positions of a column name in the unified headers.
PositionsOf(name) ==
    {g \in 3..Len(extraction.headers) : extraction.headers[g] = name}

\* The unified row n is [code, type] and then, under each name of its table,
\* the row's value for that column, and the empty string under every other name.
ValuesInPlace(n, origin) ==
    LET t == raw_tables[origin.table]
        row == t.data_rows[origin.row]
        out == extraction.rows[n]
    IN  /\ Len(out) = Len(extraction.headers)
        /\ out[1] = row.code
        /\ \A j \in 1..Len(t.other_headers) :
               \E g \in PositionsOf(t.other_headers[j]) : out[g] = row.other_vals[j]
        /\ \A g \in 3..Len(out) :
               (\A j \in 1..Len(t.other_headers) : t.other_headers[j] /= extraction.headers[g])
                   => out[g] = Empty

\* C4: unification loses and misplaces no value: every unified row holds each
\* other value of its source row at the global position of that value's column
\* name, and the empty string at the columns its table does not have.
C4_NoValueLost ==
    Succeeded =>
        LET origins == Origins(raw_tables, 1)
        IN  /\ Len(extraction.rows) = Len(origins)
            /\ \A n \in 1..Len(origins) : ValuesInPlace(n, origins[n])

\* The same, for the documents none of whose tables repeats a column name.
C4_NoValueLostWithUniqueNames ==
    C3_ColumnNamesUnique => C4_NoValueLost


(***************************************************************************)
(* C5                                                                      *)
(***************************************************************************)

\* The rows of data of a grid: all but the header row when a header names the
\* code column, all of them in a grid without such a header.
DataRowsOf(table) ==
    IF header_code_col(raw_headers(table)) /= 0 THEN Tail(table) ELSE table

\* The non-empty cells of a row, stripped, in order.
NonEmptyCells(row) ==
    SelectSeq([i \in 1..Len(row) |-> strip(text(row[i]))], LAMBDA c : c /= Empty)

\* An annotation row: exactly one non-empty cell, its first line no code.
AnnotationRow(row) ==
    /\ Len(NonEmptyCells(row)) = 1
    /\ ~CodeShape(strip(first_line(NonEmptyCells(row)[1])))

\* A row of a single non-empty cell that is a code.
SingleCodeRow(row) ==
    /\ Len(NonEmptyCells(row)) = 1
    /\ CodeShape(NonEmptyCells(row)[1])

\* A grid of one annotation row and, for the rest, single-code rows.
AnnotatedCodeGrid(table) ==
    /\ table /= <<>> /\ table[1] /= <<>>
    /\ ~RevisionShape(table)
    /\ LET rows == DataRowsOf(table)
       IN  /\ \E a \in 1..Len(rows) :
                  /\ AnnotationRow(rows[a])
                  /\ \A k \in 1..Len(rows) : k /= a => SingleCodeRow(rows[k])
           /\ \E k \in 1..Len(rows) : SingleCodeRow(rows[k])

\* The annotation of such a grid, its whitespace collapsed.
AnnotationOf(table) ==
    LET rows == DataRowsOf(table)
        a == CHOOSE k \in 1..Len(rows) : AnnotationRow(rows[k])
    IN  collapse_ws(NonEmptyCells(rows[a])[1])

\* C5: every code extracted from a grid of one annotation row and single-code
\* rows carries the collapsed annotation as the value of a "Note" column.
C5_EveryCodeCarriesTheNote ==
    (Len(tables_in) = 1 /\ AnnotatedCodeGrid(tables_in[1])) =>
        \A t \in 1..Len(raw_tables) :
            /\ raw_tables[t].other_headers = <<Note>>
            /\ \A k \in 1..Len(raw_tables[t].data_rows) :
                   raw_tables[t].data_rows[k].other_vals = <<AnnotationOf(tables_in[1])>>

\* A grid of that form whose codes do carry the note.
C5_NoteAttached ==
    /\ Len(tables_in) = 1 /\ AnnotatedCodeGrid(tables_in[1])
    /\ Len(raw_tables) = 1
    /\ raw_tables[1].other_headers = <<Note>>
    /\ \A k \in 1..Len(raw_tables[1].data_rows) :
           raw_tables[1].data_rows[k].other_vals = <<AnnotationOf(tables_in[1])>>


(***************************************************************************)
(* C6                                                                      *)
(***************************************************************************)

\* The grid with every missing cell written out: None becomes the empty
\* string and a row shorter than the first row is filled with empty strings.
FilledIn(table) ==
    [k \in 1..Len(table) |->
        [i \in 1..(IF Len(table[k]) < Len(table[1]) THEN Len(table[1]) ELSE Len(table[k])) |->
            IF i <= Len(table[k]) THEN text(table[k][i]) ELSE Empty]]

\* A grid with a row shorter than its first row, or with a None cell.
HasMissingCells(table) ==
    \E k \in 1..Len(table) :
        \/ Len(table[k]) < Len(table[1])
        \/ \E i \in 1..Len(table[k]) : table[k][i] = None

\* C6: malformed data never ends the extraction in an error: the only errors
\* are those of the download and of reading the document; the tables collected
\* are those of the grids that yield one, unchanged by the grids that are
\* skipped; and they are the tables of the same grids with every missing cell
\* written out as the empty string.
C6_MalformedDataIsNoError ==
    /\ extraction.status = "error" => extraction.cause \in {"requests", "pdfplumber"}
    /\ raw_tables = Candidates(tables_in)
    /\ raw_tables = Candidates([k \in 1..Len(tables_in) |-> FilledIn(tables_in[k])])
    /\ pc = "done" /\ extraction.status /= "error" =>
           /\ extraction.status = (IF raw_tables = <<>> THEN "none" ELSE "ok")
           /\ extraction = unify(Candidates(SelectSeq(tables_in,
                               LAMBDA t : process_table(t).kind = "table")))

\* C6 witness: a document that succeeded, with a grid without rows or with an
\* empty first row, and a grid with a None cell and a row shorter than its
\* header that holds a code in the code column.
C6_Witness ==
    /\ Succeeded
    /\ \E k \in 1..Len(tables_in) : tables_in[k] = <<>> \/ tables_in[k][1] = <<>>
    /\ \E k \in 1..Len(tables_in) :
           LET t == tables_in[k]
               col == header_code_col(raw_headers(t))
           IN  /\ HasMissingCells(t)
               /\ process_table(t).kind = "table"
               /\ \E r \in 2..Len(t) :
                      /\ 0 < col /\ col <= Len(t[r]) /\ Len(t[r]) < Len(t[1])
                      /\ CodeShape(strip(text(t[r][col])))
                      /\ \E i \in (Len(t[r]) + 1)..Len(t[1]) : raw_headers(t)[i] /= Empty


(***************************************************************************)
(* C7                                                                      *)
(***************************************************************************)

HintNames(word, hint) == contains(word, lower(hint))

OnlyDigits(s) == \A i \in 1..Len(s) : s[i] \in Digits

\* The label the precedence gives to a code under a hint: each line is one
\* rule, and a rule applies only when no rule above it does.
LabelFollowsPrecedence(code, hint, label) ==
    LET hcpcs_hint == HintNames(kw_hcpcs, hint)
        cpt_hint == HintNames(kw_cpt, hint)
        revenue_hint == HintNames(kw_revenue, hint)
        no_hint == ~hcpcs_hint /\ ~cpt_hint /\ ~revenue_hint
        letter_4_digits == Len(code) = 5 /\ IsAlpha(code[1]) /\ OnlyDigits(Tail(code))
        five_digits == Len(code) = 5 /\ OnlyDigits(code)
        three_4_digits == Len(code) \in {3, 4} /\ OnlyDigits(code)
    IN  /\ hcpcs_hint => label = HCPCS
        /\ ~hcpcs_hint /\ cpt_hint => label = CPT
        /\ ~hcpcs_hint /\ ~cpt_hint /\ revenue_hint => label = Revenue
        /\ no_hint /\ letter_4_digits => label = HCPCS
        /\ no_hint /\ five_digits => label = CPT
        /\ no_hint /\ three_4_digits => label = Revenue
        /\ no_hint /\ ~letter_4_digits /\ ~five_digits /\ ~three_4_digits => label = CPT

\* C7: the label of every unified row is the one the precedence gives to its
\* code under the header hint of its table: hcpcs, then cpt, then revenue in
\* the hint, then the shape of the code.
C7_ClassifierPrecedence ==
    Succeeded =>
        LET origins == Origins(raw_tables, 1)
        IN  /\ Len(extraction.rows) = Len(origins)
            /\ \A n \in 1..Len(origins) :
                   LET t == raw_tables[origins[n].table]
                   IN  LabelFollowsPrecedence(t.data_rows[origins[n].row].code,
                                              t.code_header, extraction.rows[n][2])

\* The labels of the rows whose code has the given property, under hints with
\* the given property.
LabelsWhere(CodeIs(_), HintIs(_)) ==
    LET origins == Origins(raw_tables, 1)
    IN  {extraction.rows[n][2] : n \in
            {m \in 1..Len(origins) :
                /\ CodeIs(raw_tables[origins[m].table].data_rows[origins[m].row].code)
                /\ HintIs(raw_tables[origins[m].table].code_header)}}

\* C7 witness: one result with a five-digit code labelled HCPCS under a hint
\* that names hcpcs and cpt, and, under a hint that names no system, codes
\* labelled by their shape: HCPCS, CPT, Revenue and the default CPT.
C7_Witness ==
    /\ Succeeded
    /\ LET five_digits(c) == Len(c) = 5 /\ OnlyDigits(c)
           letter_first(c) == Len(c) = 5 /\ IsAlpha(c[1]) /\ OnlyDigits(Tail(c))
           two_letters(c) == Len(c) = 5 /\ IsAlpha(c[1]) /\ IsAlpha(c[2])
           short(c) == Len(c) < 5
           both(h) == HintNames(kw_hcpcs, h) /\ HintNames(kw_cpt, h)
           none(h) == ~HintNames(kw_hcpcs, h) /\ ~HintNames(kw_cpt, h)
                      /\ ~HintNames(kw_revenue, h)
       IN  /\ LabelsWhere(five_digits, both) = {HCPCS}
           /\ LabelsWhere(letter_first, none) = {HCPCS}
           /\ LabelsWhere(five_digits, none) = {CPT}
           /\ LabelsWhere(short, none) = {Revenue}
           /\ LabelsWhere(two_letters, none) = {CPT}


(***************************************************************************)
(* The columns of a single-code-column grid                                *)
(***************************************************************************)

\* Whether the grid is a continuation (no header names the code column), and
\* its code column.
IsContinuationGrid(table) == header_code_col(raw_headers(table)) = 0

CodeColumnOf(table) ==
    IF IsContinuationGrid(table) THEN 1 ELSE header_code_col(raw_headers(table))

\* The columns of the header row other than the code column, in order.
NonCodeColumns(table) ==
    SelectSeq([i \in 1..Len(table[1]) |-> i], LAMBDA i : i /= CodeColumnOf(table))

\* Of these, the columns with a header text, and all of them when none has a
\* header text or the grid is a continuation.
LabeledOrAllUnlabeled(table) ==
    LET cols == NonCodeColumns(table)
        unlabeled(i) == raw_headers(table)[i] = Empty
    IN  IF IsContinuationGrid(table) \/ \A j \in 1..Len(cols) : unlabeled(cols[j])
        THEN cols
        ELSE SelectSeq(cols, LAMBDA i : ~unlabeled(i))

\* The name of a column: its header text, "Description" when that is empty
\* and in every continuation grid.
ColumnName(table, i) ==
    IF IsContinuationGrid(table) \/ raw_headers(table)[i] = Empty
    THEN Description
    ELSE raw_headers(table)[i]

\* The trimmed text of a cell, empty when the row has no such cell.
TrimmedCell(row, i) == IF i <= Len(row) THEN strip(text(row[i])) ELSE Empty

(***************************************************************************)
(* C8                                                                      *)
(***************************************************************************)

\* The number of rows of the first n tables.
RECURSIVE RowCount(_, _)
RowCount(tables, n) ==
    IF n = 0 THEN 0 ELSE RowCount(tables, n - 1) + Len(tables[n].data_rows)

\* The places (row, line of the code cell) of a single-code-column grid that
\* hold the code and the other values of a row of its table.
PlacesOf(table, d) ==
    LET cols == LabeledOrAllUnlabeled(table)
        code_col == CodeColumnOf(table)
        first_row == IF IsContinuationGrid(table) THEN 1 ELSE 2
        places(r) ==
            IF d.other_vals /= [j \in 1..Len(cols) |-> TrimmedCell(table[r], cols[j])]
            THEN {}
            ELSE LET lines == split_lines(TrimmedCell(table[r], code_col))
                 IN  {r * 100 + n : n \in {m \in 1..Len(lines) : strip(lines[m]) = d.code}}
    IN  UNION {places(r) : r \in first_row..Len(table)}

\* The rows of the table stand in the order of their first places in the grid.
InFirstOccurrenceOrder(table, t) ==
    LET first == [i \in 1..Len(t.data_rows) |-> PlacesOf(table, t.data_rows[i])]
    IN  /\ \A i \in 1..Len(first) : first[i] /= {}
        /\ \A i \in 1..Len(first) - 1 : Min(first[i]) < Min(first[i + 1])

\* C8: within one candidate table no two rows have the same code and other
\* values, and the rows of a single-code-column table stand in the order of
\* their first occurrence in the grid; unification drops and merges nothing: the unified rows are as many
\* as the rows of all tables, and their codes are the codes of the tables'
\* rows, table after table and row after row.
C8_UniqueWithinATableOnly ==
    /\ \A t \in 1..Len(raw_tables) :
           \A i, j \in 1..Len(raw_tables[t].data_rows) :
               i /= j => raw_tables[t].data_rows[i] /= raw_tables[t].data_rows[j]
    /\ \A k \in 1..Len(tables_in) :
           LET t == process_table(tables_in[k])
           IN  t.kind = "table" /\ ~WalkedMultiColumn(tables_in[k])
                   => InFirstOccurrenceOrder(tables_in[k], t)
    /\ Succeeded =>
           LET origins == Origins(raw_tables, 1)
           IN  /\ Len(extraction.rows) = RowCount(raw_tables, Len(raw_tables))
               /\ Len(origins) = Len(extraction.rows)
               /\ \A n \in 1..Len(origins) :
                      extraction.rows[n][1] =
                          raw_tables[origins[n].table].data_rows[origins[n].row].code

\* C8 witness: a grid that repeats a row yields a table of one row, and a
\* second table holds a row with the same code and the same other values: the
\* two rows are both in the output, equal.
C8_Witness ==
    /\ Succeeded
    /\ Len(raw_tables) = 2
    /\ \E k \in 1..Len(tables_in) :
           /\ Len(tables_in[k]) = 3
           /\ tables_in[k][2] = tables_in[k][3]
           /\ process_table(tables_in[k]).kind = "table"
           /\ Len(process_table(tables_in[k]).data_rows) = 1
    /\ \E i, j \in 1..Len(extraction.rows) :
           /\ i < j
           /\ extraction.rows[i] = extraction.rows[j]
           /\ Origins(raw_tables, 1)[i].table /= Origins(raw_tables, 1)[j].table

(***************************************************************************)
(* C9                                                                      *)
(***************************************************************************)

\* The column names of all tables, table after table.
RECURSIVE AllNames(_)
AllNames(tables) ==
    IF tables = <<>> THEN <<>>
    ELSE Head(tables).other_headers \o AllNames(Tail(tables))

FirstAppearance(names, name) == Min({i \in 1..Len(names) : names[i] = name})

\* C9: the unified headers are Code, Code Type and then the column names of
\* all candidate tables, each once, none missing, in the order of their first
\* appearance.
C9_ColumnsAreFirstSeenUnion ==
    Succeeded =>
        LET names == AllNames(raw_tables)
            union == SubSeq(extraction.headers, 3, Len(extraction.headers))
        IN  /\ Len(extraction.headers) >= 2
            /\ extraction.headers[1] = Code
            /\ extraction.headers[2] = CodeType
            /\ NoDuplicates(union)
            /\ {union[i] : i \in 1..Len(union)} = {names[i] : i \in 1..Len(names)}
            /\ \A a, b \in 1..Len(union) :
                   a < b => FirstAppearance(names, union[a]) < FirstAppearance(names, union[b])

\* C9 witness: two tables that share a column name, the second with a name
\* the first does not have, and the first with a name the second does not have.
C9_Witness ==
    /\ Succeeded
    /\ Len(raw_tables) = 2
    /\ LET first == {raw_tables[1].other_headers[i] : i \in 1..Len(raw_tables[1].other_headers)}
           second == {raw_tables[2].other_headers[i] : i \in 1..Len(raw_tables[2].other_headers)}
       IN  /\ first \cap second /= {}
           /\ first \ second /= {}
           /\ second \ first /= {}
           /\ Len(extraction.headers) = 2 + Cardinality(first \cup second)


(***************************************************************************)
(* C10                                                                     *)
(***************************************************************************)

\* The grid of the document is its one grid, it yielded a candidate table and
\* was walked as a single-code-column table.
SingleColumnTable ==
    /\ Len(tables_in) = 1
    /\ Len(raw_tables) = 1
    /\ ~WalkedMultiColumn(tables_in[1])

\* The table has exactly the columns cols of the grid, by name, and each of
\* its rows carries a code line and the cells at cols of one row of the grid.
TableHasColumns(table, t, cols) ==
    /\ t.other_headers = [j \in 1..Len(cols) |-> ColumnName(table, cols[j])]
    /\ \A k \in 1..Len(t.data_rows) :
           \E r \in 1..Len(table) :
               /\ IsContinuationGrid(table) \/ r > 1
               /\ \E line \in {split_lines(TrimmedCell(table[r], CodeColumnOf(table)))[n] :
                                 n \in 1..Len(split_lines(TrimmedCell(table[r], CodeColumnOf(table))))} :
                      strip(line) = t.data_rows[k].code
               /\ t.data_rows[k].other_vals =
                      [j \in 1..Len(cols) |-> TrimmedCell(table[r], cols[j])]

C10_UnlabeledKept ==
    /\ SingleColumnTable
    /\ ~IsContinuationGrid(tables_in[1])
    /\ Len(NonCodeColumns(tables_in[1])) = 2
    /\ raw_tables[1].other_headers = <<Description, Description>>


(***************************************************************************)
(* C11                                                                     *)
(***************************************************************************)

\* The one grid of the document is a headerless continuation grid that
\* yielded a candidate table, and the extraction returned its rows.
ContinuationExtracted ==
    /\ Succeeded
    /\ Len(tables_in) = 1
    /\ Len(raw_tables) = 1
    /\ IsContinuationGrid(tables_in[1])

\* C11: every code extracted from a headerless continuation grid is labelled
\* by its own shape: a letter and four digits HCPCS, five digits CPT, three
\* or four digits Revenue, anything else CPT.
C11_ContinuationCodesLabelledByShape ==
    ContinuationExtracted =>
        \A n \in 1..Len(extraction.rows) :
            LabelFollowsPrecedence(extraction.rows[n][1], Empty, extraction.rows[n][2])

\* A continuation grid of several codes of one shape, each labelled by it.
C11_LabelledByShape ==
    /\ ContinuationExtracted
    /\ Len(extraction.rows) >= 2
    /\ \A n \in 1..Len(extraction.rows) :
           /\ extraction.rows[n][2] = HCPCS
           /\ LabelFollowsPrecedence(extraction.rows[n][1], Empty, extraction.rows[n][2])

\* The label of the first code of the grid is the label of every code.
C11_LabelOfTheFirstCode ==
    ContinuationExtracted =>
        \A n \in 1..Len(extraction.rows) :
            \/ extraction.rows[n][2] = raw_tables[1].code_header
            \/ raw_tables[1].code_header = Empty

=============================================================================
